---------------------------- MODULE Spec2Model ----------------------------
(* Duplicate checker for real-estate records (duplicate_checker.py).       *)
(*                                                                         *)
(* Text cells are sequences of one-character strings, so that strip(),     *)
(* lower(), split(",") and slicing are computed character by character.    *)
(* A missing cell (pandas NaN) is the one-element sequence NaN; Python's   *)
(* None is the one-element sequence None.  A dataset is a sequence of rows,*)
(* each row a function from column name to cell; the ID column holds the   *)
(* row's position, so ids are unique.                                      *)
EXTENDS Integers, Sequences, FiniteSets, TLC

VARIABLES
    asset_type,   \* run_app: "Dat o" or "Chung cu" ("norm" for the helper runs)
    columns,      \* df.columns of the uploaded dataset
    df,           \* the uploaded dataset, as the caller holds it
    pc,           \* position in the evaluator
    work,         \* the evaluator's private copy (df.copy() + derived columns)
    cursor,       \* number of loop iterations done in the current loop
    results,      \* the list of result rows
    error,        \* message of the ValueError raised, or NoError
    raw,          \* helper runs: the raw input
    out           \* helper runs: the values computed from raw, in order

vars == <<asset_type, columns, df, pc, work, cursor, results, error, raw, out>>

---------------------------------------------------------------------------
(* Bounds: rows of a dataset, required columns a dataset may lack, length of *)
(* a raw coordinate text                                                     *)

MaxRows == 3
MaxMissing == 2
MaxLen == 5

---------------------------------------------------------------------------
(* Constants of the program.  Column names and labels are written without *)
(* their Vietnamese diacritics.                                             *)

ADDR_COLS == <<"Tinh/Thanh pho", "Quan/Huyen/Thi xa", "Xa/Phuong", "Duong/Pho", "So nha">>
CHUNGCU_COLS == <<"Tinh/Thanh pho", "Du an/Khu do thi/Khu phan lo", "Dia chi can ho/san">>
CREATOR_COL == "Nguoi tao"
TIME_COL == "Thoi diem thu thap thong tin"
COORD_COL == "Toa do"
STATUS_COL == "Giai doan hien tai"
ID_COL == "ID"

HOAN_THANH == "Hoan thanh"
PHE_DUYET == "Phe duyet"
CANH_BAO == "Canh bao trung"
NGHI_NGO == "Nghi ngo trung"

DEFAULT_MAX_LEN == 8

---------------------------------------------------------------------------
(* Python / pandas primitives *)

NaN == <<"NaN">>
None == <<"None">>
NaT == -1
NoError == "none"

Range(s) == {s[k] : k \in 1..Len(s)}

isna(v) == v = NaN \/ v = None

\* str(v): a missing cell prints as "nan", None as "None"
str(v) == IF v = NaN THEN <<"n", "a", "n">>
          ELSE IF v = None THEN <<"N", "o", "n", "e">>
          ELSE v

Whitespace == {" "}

RECURSIVE lstrip(_)
lstrip(s) == IF s # <<>> /\ Head(s) \in Whitespace THEN lstrip(Tail(s)) ELSE s

RECURSIVE rstrip(_)
rstrip(s) == IF s # <<>> /\ s[Len(s)] \in Whitespace
             THEN rstrip(SubSeq(s, 1, Len(s) - 1)) ELSE s

strip(s) == rstrip(lstrip(s))

lower_char(c) == CASE c = "A" -> "a"
                   [] c = "B" -> "b"
                   [] c = "H" -> "h"
                   [] c = "N" -> "n"
                   [] c = "P" -> "p"
                   [] OTHER -> c

lower(s) == [k \in 1..Len(s) |-> lower_char(s[k])]

\* s[:n] for n >= 0
prefix(s, n) == SubSeq(s, 1, IF n < Len(s) THEN n ELSE Len(s))

RECURSIVE split(_, _)
split(s, sep) ==
    IF sep \notin Range(s) THEN <<s>>
    ELSE LET k == CHOOSE j \in 1..Len(s) : s[j] = sep /\ \A h \in 1..(j - 1) : s[h] # sep
         IN  <<SubSeq(s, 1, k - 1)>> \o split(SubSeq(s, k + 1, Len(s)), sep)

RECURSIVE join(_, _)
join(sep, parts) ==
    IF parts = <<>> THEN <<>>
    ELSE IF Len(parts) = 1 THEN parts[1]
    ELSE parts[1] \o sep \o join(sep, Tail(parts))

\* str.replace(old, "") for a one-character old
remove_char(s, c) == LET keep == {k \in 1..Len(s) : s[k] # c}
                         RECURSIVE pick(_)
                         pick(k) == IF k > Len(s) THEN <<>>
                                    ELSE (IF k \in keep THEN <<s[k]>> ELSE <<>>) \o pick(k + 1)
                     IN  pick(1)

\* row.get(col, "")
get(row, col) == IF col \in DOMAIN row THEN row[col] ELSE <<>>

---------------------------------------------------------------------------
(* Helpers *)

\* str(row.get(col, "")).strip().lower()
normalize_field(row, col) == lower(strip(str(get(row, col))))

build_addr_key(row) ==
    join(<<"|", "|">>, [k \in 1..Len(ADDR_COLS) |-> normalize_field(row, ADDR_COLS[k])])

build_chungcu_key(row) ==
    join(<<"|", "|">>, [k \in 1..Len(CHUNGCU_COLS) |-> normalize_field(row, CHUNGCU_COLS[k])])

normalize_coord(value, max_len) ==
    IF isna(value) THEN None
    ELSE LET parts == split(str(value), ",")
         IN  IF Len(parts) # 2 THEN None
             ELSE prefix(strip(parts[1]), max_len) \o <<",">> \o prefix(strip(parts[2]), max_len)

\* pd.to_datetime(text, dayfirst=True, errors="coerce") on a <<day, month>> text;
\* anything else is coerced to NaT.  The timestamp is the day of the year.
to_datetime(cell) ==
    IF Len(cell) = 2 /\ cell[1] \in 1..31 /\ cell[2] \in 1..12
    THEN (cell[2] - 1) * 31 + cell[1]
    ELSE NaT

\* mutant: <= in place of <
time_le(a, b) == a # NaT /\ b # NaT /\ a <= b

\* a < b on timestamps: any comparison with NaT is False
time_lt(a, b) == a # NaT /\ b # NaT /\ a < b

---------------------------------------------------------------------------
(* Core logic, land records *)

REQUIRED_LAND == ADDR_COLS \o <<CREATOR_COL, TIME_COL, COORD_COL, STATUS_COL, ID_COL>>
REQUIRED_CHUNGCU == CHUNGCU_COLS \o <<CREATOR_COL, ID_COL>>

\* the first column of required_cols that df lacks, or "" when none is missing
first_missing(required_cols, cols) ==
    IF \A k \in 1..Len(required_cols) : required_cols[k] \in cols THEN ""
    ELSE required_cols[CHOOSE k \in 1..Len(required_cols) :
                           /\ required_cols[k] \notin cols
                           /\ \A h \in 1..(k - 1) : required_cols[h] \in cols]

missing_column_error(col) == <<"Thieu cot", col>>

\* the index labels of the rows of frame whose column col equals value, in order
labels_where(frame, col, value) ==
    SelectSeq([i \in 1..Len(frame) |-> i], LAMBDA i : frame[i][col] = value)

\* mutant: the stage filter is dropped
every_label(frame) == [i \in 1..Len(frame) |-> i]

completed_labels(frame) == labels_where(frame, STATUS_COL, HOAN_THANH)

submitted_labels(frame) == labels_where(frame, STATUS_COL, PHE_DUYET)

derive_columns(row) ==
    row @@ [addr_key |-> build_addr_key(row),
            coord_norm |-> normalize_coord(row[COORD_COL], DEFAULT_MAX_LEN),
            time_norm |-> to_datetime(row[TIME_COL]),
            creator_norm |-> strip(str(row[CREATOR_COL]))]

\* _prepare, after the column check
prepare(frame) ==
    LET all == [i \in 1..Len(frame) |-> derive_columns(frame[i])]
    IN  [all |-> all,
         hoan_thanh |-> completed_labels(all),
         phe_duyet |-> submitted_labels(all)]

\* DataFrame.groupby(col).groups over the rows labelled by labels: rows whose
\* key is missing belong to no group
groupby(all, labels, col) ==
    [k \in {all[i][col] : i \in Range(labels)} \ {None, NaN} |->
        {i \in Range(labels) : all[i][col] = k}]

\* groups.get(key), with None read as the empty index
group_get(groups, key) == IF key \in DOMAIN groups THEN groups[key] ELSE {}

addr_groups(prep) == groupby(prep.all, prep.hoan_thanh, "addr_key")
coord_groups(prep) == groupby(prep.all, prep.hoan_thanh, "coord_norm")

\* subset[subset["time_norm"] < row_time], mode A
earlier_A(prep, idx, row) ==
    {r \in idx : time_lt(prep.all[r].time_norm, row.time_norm)}

\* mutant: records of the same date count as earlier
earlier_B_or_same_date(prep, idx, row) ==
    {r \in idx : /\ prep.all[r].time_norm # NaT
                 /\ row.time_norm # NaT
                 /\ prep.all[r].time_norm <= row.time_norm
                 /\ prep.all[r][ID_COL] # row[ID_COL]}

\* mutant: only the latest of the earlier records is kept
earlier_B_latest_only(prep, idx, row) ==
    LET earlier == {r \in idx : /\ time_lt(prep.all[r].time_norm, row.time_norm)
                                /\ prep.all[r][ID_COL] # row[ID_COL]}
    IN  {r \in earlier : \A q \in earlier : prep.all[q].time_norm <= prep.all[r].time_norm}

\* subset[(subset["time_norm"] < row_time) & (subset[ID_COL] != row_id)], mode B
earlier_B(prep, idx, row) ==
    {r \in idx : /\ time_lt(prep.all[r].time_norm, row.time_norm)
                 /\ prep.all[r][ID_COL] # row[ID_COL]}

NoSeverity == "None"

empty_match ==
    [severity |-> NoSeverity, duplicate_ids |-> {}, duplicate_creators |-> {},
     reason_details |-> <<>>, has_addr_dup |-> FALSE, has_coord_dup |-> FALSE]

ids_of(prep, rows) == {prep.all[r][ID_COL] : r \in rows}
creators_of(prep, rows) == {prep.all[r].creator_norm : r \in rows}

\* the address rule: subset is the filtered address group of the subject row
address_rule(prep, row, subset, mode, m) ==
    IF subset = {} THEN m
    ELSE LET same_creator == {r \in subset : prep.all[r].creator_norm = row.creator_norm}
             diff_creator == {r \in subset : prep.all[r].creator_norm # row.creator_norm}
             m1 == IF same_creator # {}
                   THEN [m EXCEPT !.severity = CANH_BAO,
                                  !.duplicate_ids = @ \cup ids_of(prep, same_creator),
                                  !.duplicate_creators = @ \cup creators_of(prep, same_creator),
                                  !.reason_details = Append(@, <<mode, "same creator, address">>)]
                   ELSE m
             m2 == IF diff_creator # {}
                   THEN [m1 EXCEPT !.severity = IF @ = NoSeverity THEN NGHI_NGO ELSE @,
                                   !.duplicate_ids = @ \cup ids_of(prep, diff_creator),
                                   !.duplicate_creators = @ \cup creators_of(prep, diff_creator),
                                   !.reason_details = Append(@, <<mode, "other creator, address">>)]
                   ELSE m1
         IN  [m2 EXCEPT !.has_addr_dup = TRUE]

\* mutant: the coordinate rule leaves a severity that is already set
coordinate_rule_keeps_severity(prep, row, subset, mode, m) ==
    IF subset = {} THEN m
    ELSE [m EXCEPT !.has_coord_dup = TRUE,
                   !.severity = IF @ = NoSeverity THEN CANH_BAO ELSE @,
                   !.duplicate_ids = @ \cup ids_of(prep, subset),
                   !.duplicate_creators = @ \cup creators_of(prep, subset),
                   !.reason_details = Append(@, <<mode, "coordinate">>)]

\* the coordinate rule: subset is the filtered coordinate group of the subject row
coordinate_rule(prep, row, subset, mode, m) ==
    IF subset = {} THEN m
    ELSE [m EXCEPT !.has_coord_dup = TRUE,
                   !.severity = CANH_BAO,
                   !.duplicate_ids = @ \cup ids_of(prep, subset),
                   !.duplicate_creators = @ \cup creators_of(prep, subset),
                   !.reason_details = Append(@, <<mode, "coordinate">>)]

_collect_result(row, m, severity_label) ==
    [ID |-> row[ID_COL],
     creator |-> row.creator_norm,
     severity |-> severity_label,
     reason_details |-> m.reason_details,
     info |-> IF m.has_coord_dup THEN <<"Toa do", row[COORD_COL]>>
              ELSE IF m.has_addr_dup THEN <<"Dia chi">>
              ELSE <<>>,
     duplicate_ids |-> m.duplicate_ids,
     duplicate_creators |-> m.duplicate_creators]

\* one iteration of the loop over phe_duyet (mode "A") or hoan_thanh (mode "B"):
\* the result rows it appends
evaluate_row(prep, row, mode) ==
    LET addr_idx == group_get(addr_groups(prep), row.addr_key)
        coord_idx == group_get(coord_groups(prep), row.coord_norm)
        addr_subset == IF mode = "A" THEN earlier_A(prep, addr_idx, row)
                       ELSE earlier_B(prep, addr_idx, row)
        coord_subset == IF mode = "A" THEN earlier_A(prep, coord_idx, row)
                        ELSE earlier_B(prep, coord_idx, row)
        m1 == address_rule(prep, row, addr_subset, mode, empty_match)
        m2 == coordinate_rule(prep, row, coord_subset, mode, m1)
    IN  IF m2.duplicate_ids # {}
        THEN <<_collect_result(row, m2, IF m2.severity = NoSeverity THEN NGHI_NGO ELSE m2.severity)>>
        ELSE <<>>

---------------------------------------------------------------------------
(* Core logic, apartment records *)

\* df["chungcu_key"].str.replace("|", "").str.strip().ne("")
valid_key(key) == strip(remove_char(key, "|")) # <<>>

\* groupby("chungcu_key", sort=False): the keys in order of first appearance
RECURSIVE keys_in_order(_, _)
keys_in_order(frame, seen) ==
    IF frame = <<>> THEN <<>>
    ELSE IF Head(frame).chungcu_key \in seen THEN keys_in_order(Tail(frame), seen)
    ELSE <<Head(frame).chungcu_key>>
         \o keys_in_order(Tail(frame), seen \cup {Head(frame).chungcu_key})

\* check_duplicates_chungcu, from df.copy() to the grouping
prepare_chungcu(frame) ==
    LET keyed == [i \in 1..Len(frame) |->
                     frame[i] @@ [creator_norm |-> strip(str(frame[i][CREATOR_COL])),
                                  chungcu_key |-> build_chungcu_key(frame[i])]]
        valid == SelectSeq(keyed, LAMBDA row : valid_key(row.chungcu_key))
    IN  [all |-> valid, groups |-> keys_in_order(valid, {})]

\* mutant: only the rows above count as the others
others_above(group_df, row) == SelectSeq(group_df, LAMBDA o : o[ID_COL] < row[ID_COL])

\* group_df[group_df[ID_COL] != row_id]
others_of(group_df, row) == SelectSeq(group_df, LAMBDA o : o[ID_COL] # row[ID_COL])

chungcu_result(group_df, row) ==
    LET others == others_of(group_df, row)
        same_creator == SelectSeq(others, LAMBDA o : o.creator_norm = row.creator_norm)
    IN  IF others = <<>> THEN <<>>
        ELSE <<[ID |-> row[ID_COL],
                creator |-> row.creator_norm,
                severity |-> IF same_creator # <<>> THEN CANH_BAO ELSE NGHI_NGO,
                reason_details |-> <<IF same_creator # <<>> THEN "same creator" ELSE "other creator">>,
                info |-> <<"Chung cu">>,
                duplicate_ids |-> {others[k][ID_COL] : k \in 1..Len(others)},
                duplicate_creators |-> {others[k].creator_norm : k \in 1..Len(others)}]>>

RECURSIVE flatten(_)
flatten(ss) == IF ss = <<>> THEN <<>> ELSE Head(ss) \o flatten(Tail(ss))

\* one iteration of the loop over groups.items(): the result rows it appends
evaluate_group(all, key) ==
    LET group_df == SelectSeq(all, LAMBDA row : row.chungcu_key = key)
    IN  IF Len(group_df) <= 1 THEN <<>>
        ELSE flatten([k \in 1..Len(group_df) |-> chungcu_result(group_df, group_df[k])])

---------------------------------------------------------------------------
(* The datasets explored.  A row is built from a code, a mixed-radix number  *)
(* whose digits choose one sample per column; a dataset lists its rows by    *)
(* non-decreasing code (the evaluators treat the rows as a set: their order  *)
(* only decides the order of the result rows).                               *)

CreatorSamples == << <<"A">>, <<"B">> >>
\* a missing cell, "02/01" (2 January) and "01/02" (1 February)
TimeSamples == << NaN, <<2, 1>>, <<1, 2>> >>
\* house number and coordinate: one address with and without a coordinate,
\* and a second address with the first one's coordinate up to its 8th character
PlaceSamples ==
    << [house |-> <<"1">>, coord |-> <<"1", ".", "2", "3", "4", "5", "6", "7", "8", ",", "9">>],
       [house |-> <<"1">>, coord |-> NaN],
       [house |-> <<"2">>, coord |-> <<"1", ".", "2", "3", "4", "5", "6", "7", "9", ",", " ", "9">>] >>
MatchedStages == <<HOAN_THANH, PHE_DUYET>>
\* further rows: two in a stage that takes no part in the matching ("Nhap",
\* and "Hoan thanh" with a trailing blank), and a completed row dated 3 January,
\* between the two dates of TimeSamples
ExtraRows ==
    << [stage |-> "Nhap", creator |-> <<"A">>, time |-> <<2, 1>>, place |-> 1],
       [stage |-> "Hoan thanh ", creator |-> <<"B">>, time |-> <<1, 2>>, place |-> 2],
       [stage |-> HOAN_THANH, creator |-> <<"A">>, time |-> <<3, 1>>, place |-> 1] >>

digit(code, radix, place) == ((code \div place) % radix) + 1

NumProduct == Len(MatchedStages) * Len(CreatorSamples) * Len(TimeSamples) * Len(PlaceSamples)

LandCodes == 0..(NumProduct + Len(ExtraRows) - 1)

\* the samples a code chooses
LandChoice(code) ==
    LET p1 == Len(MatchedStages)
        p2 == p1 * Len(CreatorSamples)
        p3 == p2 * Len(TimeSamples)
    IN  IF code >= NumProduct THEN ExtraRows[code - NumProduct + 1]
        ELSE [stage |-> MatchedStages[digit(code, Len(MatchedStages), 1)],
              creator |-> CreatorSamples[digit(code, Len(CreatorSamples), p1)],
              time |-> TimeSamples[digit(code, Len(TimeSamples), p2)],
              place |-> digit(code, Len(PlaceSamples), p3)]

LandRow(code, id, cols) ==
    LET ch == LandChoice(code)
    IN  [c \in cols |->
            CASE c = ADDR_COLS[1] -> <<"H", "N">>
              [] c = ADDR_COLS[2] -> <<" ", "C", "g">>
              [] c = ADDR_COLS[3] -> NaN
              [] c = ADDR_COLS[4] -> <<"P">>
              [] c = ADDR_COLS[5] -> PlaceSamples[ch.place].house
              [] c = CREATOR_COL -> ch.creator
              [] c = TIME_COL -> ch.time
              [] c = COORD_COL -> PlaceSamples[ch.place].coord
              [] c = STATUS_COL -> ch.stage
              [] c = ID_COL -> id]

ProvinceSamples == << <<>>, <<"H">> >>
ProjectSamples == << <<" ">>, <<"|">>, NaN >>
UnitSamples == << <<>>, <<"1">> >>

ChungcuCodes ==
    0..(Len(ProvinceSamples) * Len(ProjectSamples) * Len(UnitSamples)
          * Len(CreatorSamples) - 1)

ChungcuRow(code, id, cols) ==
    LET p1 == Len(ProvinceSamples)
        p2 == p1 * Len(ProjectSamples)
        p3 == p2 * Len(UnitSamples)
    IN  [c \in cols |->
            CASE c = CHUNGCU_COLS[1] -> ProvinceSamples[digit(code, Len(ProvinceSamples), 1)]
              [] c = CHUNGCU_COLS[2] -> ProjectSamples[digit(code, Len(ProjectSamples), p1)]
              [] c = CHUNGCU_COLS[3] -> UnitSamples[digit(code, Len(UnitSamples), p2)]
              [] c = CREATOR_COL -> CreatorSamples[digit(code, Len(CreatorSamples), p3)]
              [] c = ID_COL -> id]

\* the lists of at most maxRows codes in non-decreasing order
NonDecreasing(codes) == \A k \in 1..(Len(codes) - 1) : codes[k] <= codes[k + 1]

\* the subsets of the required columns that lack at most MaxMissing of them
ColumnSets(required_cols) ==
    {Range(required_cols) \ missing :
        missing \in {m \in SUBSET Range(required_cols) : Cardinality(m) <= MaxMissing}}

---------------------------------------------------------------------------
(* run_app: one upload, checked by the evaluator of the chosen asset type *)

NoWork == [all |-> <<>>]

InitLand ==
    /\ asset_type = "Dat o"
    /\ \E cols \in ColumnSets(REQUIRED_LAND) :
         \E n \in 0..(IF cols = Range(REQUIRED_LAND) THEN MaxRows ELSE 1) :
         \E codes \in [1..n -> LandCodes] :
            /\ NonDecreasing(codes)
            /\ columns = cols
            /\ df = [i \in 1..Len(codes) |-> LandRow(codes[i], i, cols)]

InitChungcu ==
    /\ asset_type = "Chung cu"
    /\ \E cols \in ColumnSets(REQUIRED_CHUNGCU) :
         \E n \in 0..(IF cols = Range(REQUIRED_CHUNGCU) THEN MaxRows ELSE 1) :
         \E codes \in [1..n -> ChungcuCodes] :
            /\ NonDecreasing(codes)
            /\ columns = cols
            /\ df = [i \in 1..Len(codes) |-> ChungcuRow(codes[i], i, cols)]

Init ==
    /\ InitLand \/ InitChungcu
    /\ pc = "start"
    /\ work = NoWork
    /\ cursor = 0
    /\ results = <<>>
    /\ error = NoError
    /\ raw = <<>>
    /\ out = <<>>

\* mutant: _prepare derives its columns on df itself (no df.copy())
Prepare_in_place ==
    /\ pc = "start"
    /\ asset_type = "Dat o"
    /\ IF first_missing(REQUIRED_LAND, columns) # ""
       THEN /\ error' = missing_column_error(first_missing(REQUIRED_LAND, columns))
            /\ pc' = "error"
            /\ work' = work
            /\ df' = df
       ELSE /\ work' = prepare(df)
            /\ df' = prepare(df).all
            /\ pc' = "A"
            /\ error' = error
    /\ UNCHANGED <<asset_type, columns, cursor, results, raw, out>>

\* check_duplicates, up to the loops: _prepare raises on the first missing
\* column, else derives the columns on a copy and splits it by stage
Prepare ==
    /\ pc = "start"
    /\ asset_type = "Dat o"
    /\ IF first_missing(REQUIRED_LAND, columns) # ""
       THEN /\ error' = missing_column_error(first_missing(REQUIRED_LAND, columns))
            /\ pc' = "error"
            /\ work' = work
       ELSE /\ work' = prepare(df)
            /\ pc' = "A"
            /\ error' = error
    /\ UNCHANGED <<asset_type, columns, df, cursor, results, raw, out>>

\* A. one iteration of "for _, row in phe_duyet.iterrows()"
ModeA_Row ==
    /\ pc = "A"
    /\ cursor < Len(work.phe_duyet)
    /\ results' = results \o evaluate_row(work, work.all[work.phe_duyet[cursor + 1]], "A")
    /\ cursor' = cursor + 1
    /\ UNCHANGED <<asset_type, columns, df, pc, work, error, raw, out>>

\* the loop over phe_duyet is exhausted
ModeA_End ==
    /\ pc = "A"
    /\ cursor = Len(work.phe_duyet)
    /\ pc' = "B"
    /\ cursor' = 0
    /\ UNCHANGED <<asset_type, columns, df, work, results, error, raw, out>>

\* B. one iteration of "for _, row in hoan_thanh.iterrows()"
ModeB_Row ==
    /\ pc = "B"
    /\ cursor < Len(work.hoan_thanh)
    /\ results' = results \o evaluate_row(work, work.all[work.hoan_thanh[cursor + 1]], "B")
    /\ cursor' = cursor + 1
    /\ UNCHANGED <<asset_type, columns, df, pc, work, error, raw, out>>

\* return pd.DataFrame(results)
Return ==
    /\ pc = "B"
    /\ cursor = Len(work.hoan_thanh)
    /\ pc' = "done"
    /\ UNCHANGED <<asset_type, columns, df, work, cursor, results, error, raw, out>>

\* check_duplicates_chungcu, up to the loop over the groups
PrepareChungcu ==
    /\ pc = "start"
    /\ asset_type = "Chung cu"
    /\ IF first_missing(REQUIRED_CHUNGCU, columns) # ""
       THEN /\ error' = missing_column_error(first_missing(REQUIRED_CHUNGCU, columns))
            /\ pc' = "error"
            /\ work' = work
       ELSE /\ work' = prepare_chungcu(df)
            /\ pc' = "groups"
            /\ error' = error
    /\ UNCHANGED <<asset_type, columns, df, cursor, results, raw, out>>

\* one iteration of "for key, idx in groups.items()"
Group_Step ==
    /\ pc = "groups"
    /\ cursor < Len(work.groups)
    /\ results' = results \o evaluate_group(work.all, work.groups[cursor + 1])
    /\ cursor' = cursor + 1
    /\ UNCHANGED <<asset_type, columns, df, pc, work, error, raw, out>>

\* return pd.DataFrame(results)
ReturnChungcu ==
    /\ pc = "groups"
    /\ cursor = Len(work.groups)
    /\ pc' = "done"
    /\ UNCHANGED <<asset_type, columns, df, work, cursor, results, error, raw, out>>

Next ==
    \/ Prepare
    \/ ModeA_Row
    \/ ModeA_End
    \/ ModeB_Row
    \/ Return
    \/ PrepareChungcu
    \/ Group_Step
    \/ ReturnChungcu

Spec == Init /\ [][Next]_vars

---------------------------------------------------------------------------
(* The helpers on their own: normalize_coord applied to a raw value and then  *)
(* to its own result, and build_addr_key applied to two rows and then to a    *)
(* row made of the first row's normalized fields.                             *)

CoordAlphabet == {"1", " ", ","}
Strings(alphabet, n) == UNION {[1..k -> alphabet] : k \in 0..n}
MaxLenChoices == {1, 2, DEFAULT_MAX_LEN}

FieldSamples == {<<>>, <<"|">>, <<"a">>, <<" ", "A">>, NaN, <<"n", "a", "n">>}

\* a row whose first two address fields are f1 and f2, the others empty
AddrRow(f1, f2) ==
    [c \in Range(ADDR_COLS) |->
        IF c = ADDR_COLS[1] THEN f1 ELSE IF c = ADDR_COLS[2] THEN f2 ELSE <<>>]

NoRow == AddrRow(<<>>, <<>>)

normalized_fields(row) == [k \in 1..Len(ADDR_COLS) |-> normalize_field(row, ADDR_COLS[k])]

\* the row whose cells are the normalized fields of row
normalized_row(row) == [c \in Range(ADDR_COLS) |-> normalize_field(row, c)]

InitHelpers ==
    /\ asset_type = "helpers"
    /\ \/ \E v \in Strings(CoordAlphabet, MaxLen) \cup {NaN} : \E m \in MaxLenChoices :
            raw = [kind |-> "coord", value |-> v, max_len |-> m, a |-> NoRow, b |-> NoRow]
       \/ \E f1, f2, g1, g2 \in FieldSamples :
            raw = [kind |-> "addr", value |-> <<>>, max_len |-> 0,
                   a |-> AddrRow(f1, f2), b |-> AddrRow(g1, g2)]
    /\ pc = "start"
    /\ out = <<>>
    /\ columns = {}
    /\ df = <<>>
    /\ work = NoWork
    /\ cursor = 0
    /\ results = <<>>
    /\ error = NoError

Normalize ==
    /\ pc = "start"
    /\ raw.kind = "coord"
    /\ out' = <<normalize_coord(raw.value, raw.max_len)>>
    /\ pc' = "normalized"
    /\ UNCHANGED <<asset_type, columns, df, work, cursor, results, error, raw>>

Renormalize ==
    /\ pc = "normalized"
    /\ out[1] # None
    /\ out' = Append(out, normalize_coord(out[1], raw.max_len))
    /\ pc' = "done"
    /\ UNCHANGED <<asset_type, columns, df, work, cursor, results, error, raw>>

BuildKeys ==
    /\ pc = "start"
    /\ raw.kind = "addr"
    /\ out' = <<build_addr_key(raw.a), build_addr_key(raw.b)>>
    /\ pc' = "keyed"
    /\ UNCHANGED <<asset_type, columns, df, work, cursor, results, error, raw>>

RenormalizeFields ==
    /\ pc = "keyed"
    /\ out' = Append(out, normalized_fields(normalized_row(raw.a)))
    /\ pc' = "done"
    /\ UNCHANGED <<asset_type, columns, df, work, cursor, results, error, raw>>

NextHelpers ==
    \/ Normalize
    \/ Renormalize
    \/ BuildKeys
    \/ RenormalizeFields

SpecHelpers == InitHelpers /\ [][NextHelpers]_vars

---------------------------------------------------------------------------
(* Properties of check_duplicates.  They read the prepared frame and the    *)
(* result rows; a result row's ID is the index label of its subject.        *)

LandRunning == asset_type = "Dat o" /\ pc \in {"A", "B", "done"}
LandDone == asset_type = "Dat o" /\ pc = "done"

Labels == 1..Len(work.all)
Completed == {i \in Labels : work.all[i][STATUS_COL] = HOAN_THANH}
Submitted == {i \in Labels : work.all[i][STATUS_COL] = PHE_DUYET}
References(s) == Completed \ {s}

HasTime(i) == work.all[i].time_norm # NaT
SameAddress(s, r) == work.all[r].addr_key = work.all[s].addr_key
SameCoordinate(s, r) ==
    work.all[s].coord_norm # None /\ work.all[r].coord_norm = work.all[s].coord_norm
SameKey(s, r) == SameAddress(s, r) \/ SameCoordinate(s, r)
SameCreator(s, r) == work.all[r].creator_norm = work.all[s].creator_norm
StrictlyEarlier(r, s) ==
    HasTime(r) /\ HasTime(s) /\ work.all[r].time_norm < work.all[s].time_norm

ResultRows == {results[k] : k \in 1..Len(results)}
RowsOf(s) == {k \in 1..Len(results) : results[k].ID = s}

\* the candidates that qualify under the rules as the code applies them
CoordinateCandidates(s) ==
    {r \in References(s) : SameCoordinate(s, r) /\ StrictlyEarlier(r, s)}
SameCreatorAddressCandidates(s) ==
    {r \in References(s) : SameAddress(s, r) /\ SameCreator(s, r) /\ StrictlyEarlier(r, s)}
EarlierSameKey(s) == {r \in References(s) : SameKey(s, r) /\ StrictlyEarlier(r, s)}

\* C1: when the subject's collected_time is absent the temporal filter is
\* skipped: a subject that shares its address key or its (present) coordinate
\* key with another completed record gets an output row listing every such
\* record, whatever that record's time
C1_AbsentTimeSkipsFilter ==
    LandDone =>
        \A s \in Submitted \cup Completed :
            (~HasTime(s) /\ \E r \in References(s) : SameKey(s, r)) =>
                \E row \in ResultRows :
                    /\ row.ID = s
                    /\ {r \in References(s) : SameKey(s, r)} \subseteq row.duplicate_ids

\* C2: temporal gating: in every output row whose subject has a collected_time,
\* every duplicate id is a completed record whose collected_time is present and
\* strictly earlier than the subject's
C2_TemporalGating ==
    LandRunning =>
        \A row \in ResultRows :
            HasTime(row.ID) =>
                \A d \in row.duplicate_ids :
                    /\ d \in Completed
                    /\ HasTime(d)
                    /\ work.all[d].time_norm < work.all[row.ID].time_norm

\* a row was emitted with a duplicate, and a same-key completed record dated
\* the same day as the subject was passed over
C2_Witness ==
    /\ LandDone
    /\ \E row \in ResultRows :
         /\ HasTime(row.ID)
         /\ row.duplicate_ids # {}
         /\ \E r \in References(row.ID) :
              /\ SameKey(row.ID, r)
              /\ work.all[r].time_norm = work.all[row.ID].time_norm
              /\ r \notin row.duplicate_ids

\* C3: severity resolution: a row is a Warning iff some coordinate candidate or
\* some same-creator address candidate qualifies, and a Suspicion otherwise
C3_Severity ==
    LandRunning =>
        \A row \in ResultRows :
            /\ row.severity \in {CANH_BAO, NGHI_NGO}
            /\ row.severity = CANH_BAO <=>
                  \/ CoordinateCandidates(row.ID) # {}
                  \/ SameCreatorAddressCandidates(row.ID) # {}

\* a subject matched by coordinate and by address with another creator only,
\* and one matched by address with another creator only
C3_Witness ==
    /\ LandDone
    /\ \E row \in ResultRows :
         /\ row.severity = CANH_BAO
         /\ SameCreatorAddressCandidates(row.ID) = {}
         /\ \E r \in CoordinateCandidates(row.ID) :
              SameAddress(row.ID, r) /\ ~SameCreator(row.ID, r)
    /\ \E row \in ResultRows : row.severity = NGHI_NGO

\* C4: mode B never reports a pair in both directions, and no subject is
\* listed among its own duplicates
C4_NoSymmetricPair ==
    LandRunning =>
        /\ \A x, y \in ResultRows :
              (x.ID \in Completed /\ y.ID \in Completed /\ x.ID # y.ID) =>
                  ~(y.ID \in x.duplicate_ids /\ x.ID \in y.duplicate_ids)
        /\ \A row \in ResultRows : row.ID \notin row.duplicate_ids

\* a completed record is reported with a duplicate that is itself no subject,
\* and two completed records share a key and a date
C4_Witness ==
    /\ LandDone
    /\ \E x \in ResultRows :
         /\ x.ID \in Completed
         /\ \E d \in x.duplicate_ids : RowsOf(d) = {}
    /\ \E s, r \in Completed :
         /\ s # r
         /\ SameKey(s, r)
         /\ HasTime(s)
         /\ work.all[r].time_norm = work.all[s].time_norm

\* C5: completeness in mode B: a completed record with earlier same-key
\* completed records is a subject exactly once and lists all of them; one with
\* none produces no row
C5_AllEarlierListed ==
    LandDone =>
        \A s \in Completed :
            IF EarlierSameKey(s) = {}
            THEN RowsOf(s) = {}
            ELSE /\ Cardinality(RowsOf(s)) = 1
                 /\ \A k \in RowsOf(s) : EarlierSameKey(s) \subseteq results[k].duplicate_ids

\* three completed records share a key at three different dates: the latest
\* lists the other two, the middle one lists the earliest
C5_Witness ==
    /\ LandDone
    /\ \E a, b, c \in Completed :
         /\ SameKey(b, a) /\ SameKey(c, a) /\ SameKey(c, b)
         /\ StrictlyEarlier(a, b) /\ StrictlyEarlier(b, c)
         /\ RowsOf(a) = {}
         /\ \E k \in RowsOf(b) : results[k].duplicate_ids = {a}
         /\ \E k \in RowsOf(c) : results[k].duplicate_ids = {a, b}

\* C10: stage scoping: every subject is a submitted or a completed record and
\* every duplicate is a completed record
C10_StageScoping ==
    LandRunning =>
        \A row \in ResultRows :
            /\ row.ID \in Submitted \cup Completed
            /\ row.duplicate_ids \subseteq Completed

\* a submitted record was reported as the duplicate of a completed one, while a
\* record in another stage, dated earlier and sharing its key, was left out
C10_Witness ==
    /\ LandDone
    /\ \E row \in ResultRows :
         /\ row.ID \in Submitted
         /\ \E r \in Labels \ (Submitted \cup Completed) :
              SameKey(row.ID, r) /\ StrictlyEarlier(r, row.ID)

---------------------------------------------------------------------------
(* Properties of check_duplicates_chungcu *)

ChungcuDone == asset_type = "Chung cu" /\ pc = "done"

KeyOf(i) == build_chungcu_key(df[i])

\* the key holds a character other than "|" and white space
NonBlank(key) == \E k \in 1..Len(key) : key[k] \notin ({"|"} \cup Whitespace)

MutuallyFlagged(i, j) ==
    /\ \E row \in ResultRows : row.ID = i /\ j \in row.duplicate_ids
    /\ \E row \in ResultRows : row.ID = j /\ i \in row.duplicate_ids

\* C8 as stated: any two records that share the 3-field key are mutually
\* flagged, for every key value, the all-blank key included
C8_EveryKeyMutuallyFlagged ==
    ChungcuDone =>
        \A i, j \in 1..Len(df) :
            (i # j /\ KeyOf(i) = KeyOf(j)) => MutuallyFlagged(i, j)

\* C8 as amended: any two records that share a 3-field key holding a character
\* other than "|" and white space are mutually flagged
C8_NonBlankKeyMutuallyFlagged ==
    ChungcuDone =>
        \A i, j \in 1..Len(df) :
            (i # j /\ KeyOf(i) = KeyOf(j) /\ NonBlank(KeyOf(i))) => MutuallyFlagged(i, j)

\* two records of different creators share a non-blank key and flag each other,
\* and the dataset holds a record whose key is blank
C8_Witness ==
    /\ ChungcuDone
    /\ \E i, j \in 1..Len(df) :
         /\ i # j
         /\ KeyOf(i) = KeyOf(j)
         /\ NonBlank(KeyOf(i))
         /\ df[i][CREATOR_COL] # df[j][CREATOR_COL]
         /\ MutuallyFlagged(i, j)
    /\ \E i \in 1..Len(df) : ~NonBlank(KeyOf(i))

---------------------------------------------------------------------------
(* Properties of both evaluators *)

RequiredColumns == IF asset_type = "Dat o" THEN REQUIRED_LAND ELSE REQUIRED_CHUNGCU
MissingColumns == Range(RequiredColumns) \ columns

C9_Step ==
    /\ df' = df
    /\ columns' = columns
    /\ (pc = "start" /\ pc' # "start") =>
          IF MissingColumns # {}
          THEN /\ pc' = "error"
               /\ error' \in {missing_column_error(c) : c \in MissingColumns}
               /\ results' = <<>>
               /\ work' = NoWork
               /\ cursor' = 0
          ELSE /\ pc' # "error"
               /\ error' = NoError
    /\ pc' = "error" => pc \in {"start", "error"}
    /\ pc = "error" => pc' = "error" /\ results' = results
    /\ pc' # "error" => error' = NoError

---------------------------------------------------------------------------
(* Properties of the helpers *)

\* a field normalized as specified: trimmed, case-folded, a missing cell empty
AsSpecified(cell) == IF cell = NaN THEN <<>> ELSE lower(strip(cell))

\* C6: build_addr_key returns equal keys for two rows iff their five address
\* fields are pairwise equal after normalization, a missing cell counting as
\* the empty string and fields that hold "|" included
C6_KeyEquivalence ==
    (asset_type = "helpers" /\ raw.kind = "addr" /\ pc \in {"keyed", "done"}) =>
        (out[1] = out[2] <=>
            \A k \in 1..Len(ADDR_COLS) :
                AsSpecified(raw.a[ADDR_COLS[k]]) = AsSpecified(raw.b[ADDR_COLS[k]]))

\* C7: normalize_coord applied to a string it returned returns that string
\* again, and the normalized address fields are unchanged by normalizing them
\* again
C7_Idempotent ==
    (asset_type = "helpers" /\ pc = "done") =>
        IF raw.kind = "coord" THEN out[2] = out[1]
        ELSE out[3] = normalized_fields(raw.a)

===========================================================================
